---- MODULE Spec2Model ----
(***************************************************************************)
(* Telemetry ingestion, movement inference and safety-reward engine of     *)
(* Geo-Guardian (src/src/contexts/LocationContext.tsx, which holds both    *)
(* the LocationProvider, lines 1-470, and the AuthProvider, lines          *)
(* 471-1357).                                                              *)
(*                                                                         *)
(* The two providers are React function components.  A function created    *)
(* during a render (updateLocation, smoothSpeed, detectMovement,           *)
(* updateUserRewards, the watchPosition callbacks, the effect's cleanup)   *)
(* reads the state values of THAT render.  The tracking effect runs only   *)
(* when isLocationSharing or currentUser changes (line 453), so the        *)
(* callbacks handed to watchPosition keep reading the state of the render  *)
(* in which the effect ran.  The model keeps that render's values per      *)
(* subscription in "closures".  Only functional updates                    *)
(* (setMovementHistory(prev => ...), line 361) read the current state.     *)
(*                                                                         *)
(* Units.  Wall-clock time is in whole seconds.  Durations, which the      *)
(* source carries in minutes (line 183), are carried in seconds: 0.5 min   *)
(* is 30, floor(duration / 60) is duration \div 3600, and 30 * 60 minutes  *)
(* is 108000.  safetyScore is carried in tenths (100 is 1000, 0.2 is 2).   *)
(* averageSpeed is an exact rational [num, den].  Positions lie on one     *)
(* meridian and are given in metres of arc, so the haversine distance of   *)
(* lines 92-100 and 138-147 is the absolute difference.  A month of the    *)
(* calendar is MonthSecs seconds long.                                     *)
(*                                                                         *)
(* Asynchronous operations are modelled step by step: an action is the     *)
(* code from one await to the next.  toggleLocationSharing is its call     *)
(* (ToggleOnCall) and the answer of getCurrentPosition (ToggleOn,          *)
(* ToggleOnRefused); the onAuthStateChanged listener is the sign-in and    *)
(* the answers of getDoc and of its two setDoc (LoadGetDocDone,            *)
(* LoadSetDocDone, LoadCircleDone, LoadFailed); register and               *)
(* deleteUserAccount are their calls and the answers of the store and of   *)
(* the auth service.                                                       *)
(*                                                                         *)
(* Specifications.  Spec is the life of the account and the subscription:  *)
(* register, sign-in and sign-out, deleteUserAccount, the toggle, errors   *)
(* and fixes.  SpecSession is the sharing sessions of one user who stays   *)
(* signed in.  SpecTracking is one signed-in                               *)
(* user toggling sharing while fixes arrive and the clock advances, which  *)
(* is where updateLocation reaches updateUserRewards.  SpecStream is one   *)
(* session receiving a long stream of fixes.  SpecEngine is                *)
(* updateUserRewards under any caller: observations of any speed and       *)
(* duration, months and years apart, over a stored profile of any age.     *)
(* SpecBands is one observation of any whole speed over stored profiles    *)
(* around the driving time of the aggregate bonus.  SpecPublish is         *)
(* SpecTracking over a stored profile, with fixes one at a time and store  *)
(* writes that may be rejected.  SpecJump has a fix one second after the   *)
(* previous one.                                                           *)
(* SpecTier ranges over the accuracies of the first position and of the    *)
(* fixes.  SpecEdits adds the profile edits of the AuthProvider.           *)
(* SpecHours has sessions an hour apart, SpecBoundary a fix two seconds    *)
(* after the previous one, SpecDevice a device that reports its speed, up  *)
(* to 70 m/s.                                                              *)
(***************************************************************************)
EXTENDS Integers, Sequences, FiniteSets, TLC

\* ------------------------------------------------------------------ bounds
\* Spec: fixes delivered, watchPosition calls and pending toggle calls, runs of
\* the auth listener in flight.
MaxFixes == 1
MaxWatches == 2
MaxLoads == 1
\* SpecSession: fixes delivered, toggleLocationSharing calls.
MaxSessionFixes == 1
MaxSessionWatches == 2
\* SpecTracking.
MaxTrackFixes == 3
MaxTrackInFlight == 2
MaxTrackWatches == 2
MaxTrackTicks == 1
\* SpecStream.
MaxStreamFixes == 11
MaxStreamWatches == 2
\* SpecEngine.
MaxCalls == 2
MaxEngineTicks == 1
\* SpecBands: observations, and the highest speed observed, in mph.
MaxBandCalls == 1
MaxBandSpeed == 80
\* SpecPublish: fixes delivered, watchPosition calls, clock advances.
MaxPublishFixes == 3
MaxPublishWatches == 2
MaxPublishTicks == 1
\* SpecJump: fixes delivered, watchPosition calls, clock advances.
MaxJumpFixes == 2
MaxJumpWatches == 2
MaxJumpTicks == 1
\* SpecTier: fixes delivered, watchPosition calls, the worst accuracy in metres.
MaxTierFixes == 1
MaxTierWatches == 1
MaxTierAccuracy == 21
\* SpecEdits: fixes delivered, watchPosition calls, clock advances, edits in flight.
MaxEditFixes == 2
MaxEditWatches == 2
MaxEditTicks == 1
MaxEdits == 2
\* SpecHours: fixes delivered, watchPosition calls, clock advances.
MaxHourFixes == 3
MaxHourWatches == 2
MaxHourTicks == 1
\* SpecBoundary: fixes delivered, watchPosition calls, clock advances.
MaxBoundaryFixes == 2
MaxBoundaryWatches == 2
MaxBoundaryTicks == 1
\* SpecDevice: fixes delivered, watchPosition calls, clock advances.
MaxDeviceFixes == 2
MaxDeviceWatches == 2
MaxDeviceTicks == 1

\* ------------------------------------------------------- program constants
maxHistoryLength == 5
MovementKeep == 10
RewardIntervalSecs == 30
SecsPerRewardUnit == 3600
BonusDrivingSecs == 108000
MonthSecs == 2592000
MonthsPerYear == 12
RecentWindowSecs == 30
MinDerivationSecs == 2
JumpWindowSecs == 5
MaxPlausibleMph == 150
MaxShortJumpMph == 80
SafeSpeedLimit == 65
ViolationSpeedLimit == 75
ExerciseMinSpeed == 3
ExerciseMaxSpeed == 15
MaxScore == 1000

NoUser == "none"
NoProfile == [none |-> TRUE]
NoWatch == 0
NoDate == -1
NoPosition == [none |-> TRUE]
NoSpeed == -1
NoLocation == [none |-> TRUE]
Other == [op |-> "other"]

Max(a, b) == IF a >= b THEN a ELSE b
Min(a, b) == IF a <= b THEN a ELSE b
Abs(a) == IF a >= 0 THEN a ELSE -a

\* Math.round(n / d) for n >= 0, d > 0: floor(n / d + 1/2).
RoundDiv(n, d) == (2 * n + d) \div (2 * d)

\* Date.getMonth(): the month of the year, 0..11.
getMonth(t) == (t \div MonthSecs) % MonthsPerYear

\* The calendar month (year and month) a time falls in.
CalendarMonth(t) == t \div MonthSecs

\* ---------------------------------------------------------- exact rationals
RECURSIVE Gcd(_, _)
Gcd(a, b) == IF b = 0 THEN a ELSE Gcd(b, a % b)

Rat(n, d) == LET g == Gcd(n, d) IN
             IF g = 0 THEN [num |-> 0, den |-> 1] ELSE [num |-> n \div g, den |-> d \div g]

RatLeq(r, k) == r.num <= k * r.den
RatGt(r, k) == r.num > k * r.den

\* ------------------------------------------------ AuthProvider: the profile
\* createDefaultProfile, lines 601-617: the reward fields of a new account and,
\* of its other fields, hasCompletedEmergencySetup.
createDefaultProfile(t) ==
    [ safetyScore      |-> MaxScore,
      totalRewards     |-> 0,
      weeklyRewards    |-> 0,
      monthlyRewards   |-> 0,
      speedViolations  |-> 0,
      lastSpeedCheck   |-> t,
      averageSpeed     |-> Rat(0, 1),
      totalDrivingTime |-> 0,
      hasCompletedEmergencySetup |-> FALSE ]

\* updateUserRewards, lines 1128-1132: the new time-weighted average speed,
\* (averageSpeed * totalDrivingTime + speed * duration) / totalTime.
NewAverageSpeed(p, speed, duration) ==
    LET totalTime == p.totalDrivingTime + duration
        g  == Gcd(p.averageSpeed.den, p.totalDrivingTime)
        n1 == IF g = 0 THEN 0 ELSE p.averageSpeed.num * (p.totalDrivingTime \div g)
        d1 == IF g = 0 THEN 1 ELSE p.averageSpeed.den \div g
    IN  IF totalTime > 0
        THEN Rat(n1 + speed * duration * d1, d1 * totalTime)
        ELSE Rat(speed, 1)

\* The reward of the speed band without lines 1155-1159, the exercise band.
BandRewardChangeWithoutExercise(speed, duration) ==
    LET units == duration \div SecsPerRewardUnit
    IN  IF speed <= SafeSpeedLimit THEN units * 8
        ELSE IF speed > ViolationSpeedLimit THEN -(units * 15)
        ELSE -(units * 3)

\* Lines 1139-1159: the reward of the speed band, then the exercise band.
BandRewardChange(speed, duration) ==
    LET units == duration \div SecsPerRewardUnit
        band  == IF speed <= SafeSpeedLimit THEN units * 8
                 ELSE IF speed > ViolationSpeedLimit THEN -(units * 15)
                 ELSE -(units * 3)
    IN  IF speed >= ExerciseMinSpeed /\ speed <= ExerciseMaxSpeed THEN units * 5 ELSE band

\* Lines 1142-1158: the change of the safety score, in tenths.
SafetyScoreChange(speed) ==
    LET band == IF speed <= SafeSpeedLimit THEN 2
                ELSE IF speed > ViolationSpeedLimit THEN -8
                ELSE -1
    IN  IF speed >= ExerciseMinSpeed /\ speed <= ExerciseMaxSpeed THEN 1 ELSE band

\* Line 1147: one more violation above 75 mph.
ViolationIncrement(speed) == IF speed > ViolationSpeedLimit THEN 1 ELSE 0

\* The bonus or penalty applied only above the driving time of line 1162.
AggregateChangeAboveThreshold(totalTime, newAverageSpeed) ==
    IF totalTime > BonusDrivingSecs
    THEN IF RatLeq(newAverageSpeed, SafeSpeedLimit) THEN 150
         ELSE IF RatGt(newAverageSpeed, ViolationSpeedLimit) THEN -300
         ELSE 0
    ELSE 0

\* Lines 1161-1168: the bonus or penalty on the average speed.
AggregateChange(totalTime, newAverageSpeed) ==
    IF totalTime >= BonusDrivingSecs
    THEN IF RatLeq(newAverageSpeed, SafeSpeedLimit) THEN 150
         ELSE IF RatGt(newAverageSpeed, ViolationSpeedLimit) THEN -300
         ELSE 0
    ELSE 0

RewardChange(p, speed, duration) ==
    BandRewardChange(speed, duration)
      + AggregateChange(p.totalDrivingTime + duration, NewAverageSpeed(p, speed, duration))

\* Lines 1116-1126: the month test.
MonthRollover(p, t) == getMonth(t) # getMonth(p.lastSpeedCheck)

\* The score stored as computed, without the clamp.
ScoreUnclamped(x) == x

\* Line 1175: the clamp of the safety score.
ClampScore(x) == Max(0, Min(MaxScore, x))

\* The lifetime total stored as computed, without the clamp.
TotalUnclamped(x) == x

\* Line 1172: the clamp of the lifetime total.
ClampTotal(x) == Max(0, x)

\* Lines 1115-1180: updatedProfile, from the profile the call reads.
UpdatedProfile(p, speed, duration, t) ==
    LET monthlyRewards  == IF MonthRollover(p, t) THEN 0 ELSE p.monthlyRewards
        speedViolations == IF MonthRollover(p, t) THEN 0 ELSE p.speedViolations
        rewardChange    == RewardChange(p, speed, duration)
    IN  [ p EXCEPT
            !.totalRewards     = ClampTotal(p.totalRewards + rewardChange),
            !.weeklyRewards    = p.weeklyRewards + Max(0, rewardChange),
            !.monthlyRewards   = monthlyRewards + Max(0, rewardChange),
            !.safetyScore      = ClampScore(p.safetyScore + SafetyScoreChange(speed)),
            !.speedViolations  = speedViolations + ViolationIncrement(speed),
            !.averageSpeed     = NewAverageSpeed(p, speed, duration),
            !.totalDrivingTime = p.totalDrivingTime + duration,
            !.lastSpeedCheck   = t ]

\* ------------------------------------------- LocationProvider: pure helpers
\* calculateDistance, lines 138-147, on one meridian.
calculateDistance(p1, p2) == Abs(p2 - p1)

\* calculateSpeed, lines 92-112: mph from two positions timeDiff seconds apart;
\* speedMph = distance / timeDiff * 2.237.  Compared and rounded exactly.
calculateSpeed(p1, p2, timeDiff) ==
    LET n == calculateDistance(p1, p2) * 2237
        d == timeDiff * 1000
    IN  IF n > MaxPlausibleMph * d \/ (n > MaxShortJumpMph * d /\ timeDiff < JumpWindowSecs)
        THEN 0
        ELSE Max(0, RoundDiv(n, d))

\* Line 367: Math.round(speed * 2.237), speed in whole m/s.
MpsToMph(speed) == RoundDiv(speed * 2237, 1000)

\* slice(-n) of a sequence: its last n entries.
SliceLast(s, n) == IF Len(s) <= n THEN s ELSE SubSeq(s, Len(s) - n + 1, Len(s))

\* smoothSpeed, lines 151-152: the history the call stores.
UpdatedHistory(history, newSpeed) == SliceLast(Append(history, newSpeed), maxHistoryLength)

RECURSIVE WeightedSum(_, _)
WeightedSum(h, i) == IF i = 0 THEN 0 ELSE h[i] * i + WeightedSum(h, i - 1)

RECURSIVE TotalWeight(_)
TotalWeight(i) == IF i = 0 THEN 0 ELSE i + TotalWeight(i - 1)

\* smoothSpeed, lines 155-165: the weighted average, rounded.
smoothSpeed(history, newSpeed) ==
    LET h == UpdatedHistory(history, newSpeed)
    IN  RoundDiv(WeightedSum(h, Len(h)), TotalWeight(Len(h)))

\* Line 361: prev => [...prev.slice(-10), newMovement].
AppendMovement(prev, m) == Append(SliceLast(prev, MovementKeep), m)

RECURSIVE PathLength(_, _)
PathLength(ms, i) ==
    IF i <= 1 THEN 0
    ELSE calculateDistance(ms[i - 1].pos, ms[i].pos) + PathLength(ms, i - 1)

\* detectMovement, lines 115-136, on the movement history the callback reads.
detectMovement(history, accuracy, t) ==
    LET recent == SelectSeq(history, LAMBDA m : t - m.time < RecentWindowSecs)
    IN  IF Len(history) < 3 THEN FALSE
        ELSE IF Len(recent) < 2 THEN FALSE
        ELSE PathLength(recent, Len(recent)) > Max(5, accuracy * 2)

\* The tier of a fix when an accuracy of exactly 3 m is not yet high.
AccuracyTierBelowThree(accuracy) ==
    IF accuracy < 3 THEN "high" ELSE IF accuracy <= 10 THEN "medium" ELSE "low"

\* Lines 394-400: the tier of a fix in steady state.
AccuracyTier(accuracy) ==
    IF accuracy <= 3 THEN "high" ELSE IF accuracy <= 10 THEN "medium" ELSE "low"

\* Lines 312-318: the tier of the first fix, in toggleLocationSharing.
BootstrapTier(accuracy) ==
    IF accuracy <= 5 THEN "high" ELSE IF accuracy <= 20 THEN "medium" ELSE "low"

\* -------------------------------------------------------------------- state
VARIABLES
    now,                \* the wall clock (Date.now(), new Date()), in seconds
    nticks,             \* how often the clock was advanced
    usersDoc,           \* the store's users/{uid} document, NoProfile when absent
    locationDoc,        \* the store's userLocations/{uid} document
    currentUser,        \* AuthProvider state, line 573
    userProfile,        \* AuthProvider state, line 574
    loads,              \* runs of the onAuthStateChanged listener awaiting the store
    accountExists,      \* whether the auth service holds the account
    registration,       \* whether a register call awaits its setDoc, line 659
    deletion,           \* what a deleteUserAccount call awaits, lines 741-829
    positionRequests,   \* toggleLocationSharing calls awaiting getCurrentPosition
    isLocationSharing,  \* LocationProvider state, line 54
    locationAccuracy,   \* line 55
    watchId,            \* line 56
    lastSpeedUpdate,    \* line 57
    lastPosition,       \* line 58
    speedHistory,       \* line 59
    movementHistory,    \* line 60
    currentLocation,    \* line 52
    cleanupWatchId,     \* the watchId the installed effect cleanup reads, line 443
    closures,           \* per watchPosition call: the state its callbacks read
    activeWatches,      \* the subscriptions not yet cleared
    procs,              \* fix callbacks in flight, in delivery order
    writes,             \* the writes awaiting the store, in the order they were made
    nfixes,             \* how many fixes were delivered
    calls,              \* updateUserRewards calls of other callers, awaiting updateDoc
    ncalls,             \* how many such calls were made
    edits,              \* profile edits in flight: the userProfile read, the fields written, the await reached
    lastRewardAt,       \* history: when updateLocation last invoked updateUserRewards
    failedWrite,        \* history: the last setDoc of updateLocation that was rejected
    candidates,         \* history: the last candidate speeds since sharing was enabled
    enabledAt,          \* history: when sharing was last enabled
    last                \* history: the last operation

vars == << now, nticks, usersDoc, locationDoc, currentUser, userProfile, loads,
           accountExists, registration, deletion, positionRequests,
           isLocationSharing, locationAccuracy, watchId, lastSpeedUpdate, lastPosition,
           speedHistory, movementHistory, currentLocation, cleanupWatchId, closures,
           activeWatches, procs, writes, nfixes, calls, ncalls, edits, lastRewardAt,
           failedWrite, candidates, enabledAt,
           last >>

clockVars == << now, nticks >>
accountVars == << accountExists, registration, deletion >>
authVars == << currentUser, userProfile, loads >>
storeVars == << usersDoc, locationDoc >>
trackVars == << lastSpeedUpdate, lastPosition, speedHistory, movementHistory, currentLocation >>
watchVars == << watchId, cleanupWatchId, closures, activeWatches >>
fixVars == << procs, writes, nfixes, lastRewardAt, failedWrite, candidates,
             enabledAt >>
callVars == << calls, ncalls, edits >>

\* ------------------------------------------------------------------- inputs
StartTime == MonthsPerYear * MonthSecs

\* No setDoc of updateLocation was rejected yet.
NoFailure == [at |-> NoDate, due |-> FALSE]

\* Profiles an earlier session left in the store.  The first was last checked
\* in the same month of the year before, the second in the month before.
VeteranLow ==
    [ safetyScore |-> 5, totalRewards |-> 10, weeklyRewards |-> 40, monthlyRewards |-> 30,
      speedViolations |-> 3, lastSpeedCheck |-> StartTime - MonthsPerYear * MonthSecs,
      averageSpeed |-> Rat(80, 1), totalDrivingTime |-> BonusDrivingSecs - 10,
      hasCompletedEmergencySetup |-> FALSE ]

VeteranHigh ==
    [ safetyScore |-> 999, totalRewards |-> 200, weeklyRewards |-> 60, monthlyRewards |-> 50,
      speedViolations |-> 2, lastSpeedCheck |-> StartTime - MonthSecs,
      averageSpeed |-> Rat(60, 1), totalDrivingTime |-> BonusDrivingSecs,
      hasCompletedEmergencySetup |-> FALSE ]

InitialDocs == { NoProfile, VeteranLow, VeteranHigh }

\* A profile one hour short of the driving time of line 1162, its average speed
\* on the limit of line 1163.
VeteranEdge ==
    [ safetyScore |-> 500, totalRewards |-> 1000, weeklyRewards |-> 0, monthlyRewards |-> 0,
      speedViolations |-> 0, lastSpeedCheck |-> StartTime,
      averageSpeed |-> Rat(SafeSpeedLimit, 1),
      totalDrivingTime |-> BonusDrivingSecs - SecsPerRewardUnit,
      hasCompletedEmergencySetup |-> FALSE ]

BandDocs == InitialDocs \cup { VeteranEdge }

\* The fixes the device delivers: reported speed in m/s (or none), position, accuracy.
FixInputs ==
    { [speed |-> NoSpeed, pos |-> 0,   accuracy |-> 3],
      [speed |-> 40,      pos |-> 200, accuracy |-> 25] }

FirstFixAccuracies == { 12 }

\* A fix with a reported speed of 40 m/s, and a fix without one 90 m further:
\* a second later that distance is 201 mph.
JumpFixInputs ==
    { [speed |-> 40,      pos |-> 0,  accuracy |-> 3],
      [speed |-> NoSpeed, pos |-> 90, accuracy |-> 3] }

JumpTicks == { 1 }

\* The time after which a speed is derived from two positions, line 371.
BoundaryTicks == { MinDerivationSecs }

\* An hour, the unit of the band rewards.
HourTicks == { SecsPerRewardUnit }

\* Accuracies in metres, and fixes of each accuracy.
TierAccuracies == 0..MaxTierAccuracy

TierFixInputs == { [speed |-> NoSpeed, pos |-> 0, accuracy |-> a] : a \in TierAccuracies }

\* Fixes of a device that reports a speed of 40 m/s and of 70 m/s, 157 mph.
DeviceFixInputs ==
    { [speed |-> 40, pos |-> 0,   accuracy |-> 3],
      [speed |-> 70, pos |-> 200, accuracy |-> 3] }

\* The fixes of a device that reports its speed.
PublishFixInputs == { f \in FixInputs : f.speed # NoSpeed }

Ticks == { RewardIntervalSecs }

ErrorCodes == { "PERMISSION_DENIED", "POSITION_UNAVAILABLE", "TIMEOUT" }

\* The observations other callers hand to updateUserRewards: mph and seconds.
Speeds == { 10, 60, 70, 90 }
Durations == { RewardIntervalSecs, SecsPerRewardUnit }
EngineTicks == { MonthSecs, MonthsPerYear * MonthSecs }

\* One observation of every whole speed, lasting half a minute, half an hour
\* or an hour.
BandSpeeds == 0..MaxBandSpeed
BandDurations == { RewardIntervalSecs, 1800, SecsPerRewardUnit }

\* The providers after their first render, over a store holding one of docs.
InitWith(docs, accounts) ==
    /\ now = StartTime
    /\ nticks = 0
    /\ usersDoc \in docs
    /\ locationDoc = NoLocation
    /\ currentUser = NoUser
    /\ userProfile = NoProfile
    /\ loads = << >>
    /\ accountExists \in accounts
    /\ registration = FALSE
    /\ deletion = "none"
    /\ positionRequests = 0
    /\ isLocationSharing = FALSE
    /\ locationAccuracy = "medium"
    /\ watchId = NoWatch
    /\ lastSpeedUpdate = NoDate
    /\ lastPosition = NoPosition
    /\ speedHistory = << >>
    /\ movementHistory = << >>
    /\ currentLocation = NoLocation
    /\ cleanupWatchId = NoWatch
    /\ closures = << >>
    /\ activeWatches = {}
    /\ procs = << >>
    /\ writes = << >>
    /\ nfixes = 0
    /\ calls = << >>
    /\ ncalls = 0
    /\ edits = << >>
    /\ lastRewardAt = NoDate
    /\ failedWrite = NoFailure
    /\ candidates = << >>
    /\ enabledAt = NoDate
    /\ last = Other

Init == InitWith({ NoProfile }, { TRUE })

\* A user whose profile is in the store.
InitStored == InitWith({ VeteranHigh }, { TRUE })

\* A visitor with or without an account.
InitAccount == InitWith({ NoProfile }, BOOLEAN)

InitEngine == InitWith(InitialDocs, { TRUE })

InitBands == InitWith(BandDocs, { TRUE })

\* ---------------------------------------------- the tracking effect, 344-453
\* What the callbacks of a watchPosition call made in a render read.
Closure(user, profile, lsu, lpos, sh, mh) ==
    [ currentUser |-> user, userProfile |-> profile, lastSpeedUpdate |-> lsu,
      lastPosition |-> lpos, speedHistory |-> sh, movementHistory |-> mh ]

\* Lines 442-446: the cleanup of the previous run clears the watch id of the
\* render in which that run was made.
AfterCleanup == IF cleanupWatchId # NoWatch THEN activeWatches \ {cleanupWatchId}
                ELSE activeWatches

\* The effect after a render in which isLocationSharing or currentUser changed;
\* the arguments are the state of that render.
TrackingEffect(sharing, user, profile, lsu, lpos, sh, mh) ==
    IF sharing
    THEN /\ closures' = Append(closures, Closure(user, profile, lsu, lpos, sh, mh))
         /\ activeWatches' = AfterCleanup \cup {Len(closures) + 1}
         /\ watchId' = Len(closures) + 1
         /\ cleanupWatchId' = watchId
    ELSE /\ closures' = closures
         /\ activeWatches' = IF watchId # NoWatch THEN AfterCleanup \ {watchId} ELSE AfterCleanup
         /\ watchId' = NoWatch
         /\ cleanupWatchId' = NoWatch

\* ------------------------------------------------------------ the wall clock
Tick(d) ==
    /\ now' = now + d
    /\ nticks' = nticks + 1
    /\ last' = Other
    /\ UNCHANGED << accountVars, positionRequests, authVars, storeVars, trackVars, watchVars, fixVars, callVars,
                    isLocationSharing, locationAccuracy >>

\* --------------------------------------- AuthProvider: onAuthStateChanged
RemoveAt(s, i) == SubSeq(s, 1, i - 1) \o SubSeq(s, i + 1, Len(s))

\* What signing out does: setCurrentUser(null), setUserProfile(null), lines 1242
\* and 1294-1297; LocationProvider renders and its effect runs again.
SignedOut ==
    /\ currentUser' = NoUser
    /\ userProfile' = NoProfile
    /\ TrackingEffect(isLocationSharing, NoUser, NoProfile, lastSpeedUpdate, lastPosition,
                      speedHistory, movementHistory)

\* Lines 1241-1246, a user signs in: setCurrentUser(user), then getDoc is awaited.
\* LocationProvider renders with the new currentUser and its effect runs again.
SignedIn ==
    /\ currentUser' = "u1"
    /\ loads' = Append(loads, [pc |-> "getDoc", local |-> NoProfile])
    /\ TrackingEffect(isLocationSharing, "u1", userProfile, lastSpeedUpdate, lastPosition,
                      speedHistory, movementHistory)

\* login, lines 621-640: signInWithEmailAndPassword resolves and the listener runs.
SignIn ==
    /\ accountExists
    /\ currentUser = NoUser
    /\ SignedIn
    /\ last' = Other
    /\ UNCHANGED << accountVars, positionRequests, clockVars, storeVars, userProfile,
                    trackVars, fixVars, callVars, isLocationSharing, locationAccuracy >>

\* Lines 1246-1266 and 1267-1270: getDoc resolves.  A stored profile is set;
\* when there is none, a default profile is made and setDoc awaited, line 1280.
LoadGetDocDone(i) ==
    /\ i \in DOMAIN loads
    /\ loads[i].pc = "getDoc"
    /\ IF usersDoc # NoProfile
       THEN /\ userProfile' = usersDoc
            /\ loads' = RemoveAt(loads, i)
       ELSE /\ userProfile' = userProfile
            /\ loads' = [loads EXCEPT ![i] = [pc |-> "setDoc",
                                              local |-> createDefaultProfile(now)]]
    /\ last' = Other
    /\ UNCHANGED << accountVars, positionRequests, clockVars, storeVars, currentUser,
                    trackVars, watchVars, fixVars, callVars, isLocationSharing,
                    locationAccuracy >>

\* Lines 1273-1281: the store has written the new profile, lastSpeedCheck being
\* serverTimestamp(); the setDoc of the circle is awaited.
LoadSetDocDone(i) ==
    /\ i \in DOMAIN loads
    /\ loads[i].pc = "setDoc"
    /\ usersDoc' = [loads[i].local EXCEPT !.lastSpeedCheck = now]
    /\ loads' = [loads EXCEPT ![i].pc = "setCircle"]
    /\ last' = Other
    /\ UNCHANGED << accountVars, positionRequests, clockVars, locationDoc, currentUser,
                    userProfile, trackVars, watchVars, fixVars, callVars, isLocationSharing,
                    locationAccuracy >>

\* Lines 1281-1289: the circle is written, then setUserProfile(localUserProfile).
LoadCircleDone(i) ==
    /\ i \in DOMAIN loads
    /\ loads[i].pc = "setCircle"
    /\ userProfile' = loads[i].local
    /\ loads' = RemoveAt(loads, i)
    /\ last' = Other
    /\ UNCHANGED << accountVars, positionRequests, clockVars, storeVars, currentUser,
                    trackVars, watchVars, fixVars, callVars, isLocationSharing,
                    locationAccuracy >>

\* Lines 1291-1293: getDoc or a setDoc is rejected; the error is logged.
LoadFailed(i) ==
    /\ i \in DOMAIN loads
    /\ loads' = RemoveAt(loads, i)
    /\ last' = Other
    /\ UNCHANGED << accountVars, positionRequests, clockVars, storeVars, currentUser,
                    userProfile, trackVars, watchVars, fixVars, callVars, isLocationSharing,
                    locationAccuracy >>

\* logout, lines 1195-1199, and lines 1242, 1294-1297: the listener runs with no
\* user.
SignOut ==
    /\ currentUser # NoUser
    /\ SignedOut
    /\ last' = Other
    /\ UNCHANGED << accountVars, positionRequests, clockVars, storeVars, loads, trackVars,
                    fixVars, callVars, isLocationSharing, locationAccuracy >>

\* ------------------------------------------------- AuthProvider: register
\* Lines 643-646: createUserWithEmailAndPassword makes the account and signs the
\* user in, so the listener runs; register goes on to its setDoc, line 659.
Register ==
    /\ ~accountExists
    /\ currentUser = NoUser
    /\ ~registration
    /\ accountExists' = TRUE
    /\ registration' = TRUE
    /\ SignedIn
    /\ last' = Other
    /\ UNCHANGED << deletion, positionRequests, clockVars, storeVars, userProfile,
                    trackVars, fixVars, callVars, isLocationSharing, locationAccuracy >>

\* Lines 648-667: the store has written the default profile, lastSpeedCheck being
\* serverTimestamp(); register sets no state of the provider.
RegisterSetDocDone ==
    /\ registration
    /\ registration' = FALSE
    /\ usersDoc' = createDefaultProfile(now)
    /\ last' = Other
    /\ UNCHANGED << accountExists, deletion, positionRequests, clockVars, locationDoc,
                    authVars, trackVars, watchVars, fixVars, callVars, isLocationSharing,
                    locationAccuracy >>

\* Lines 679-683: updateProfile or setDoc is rejected.
RegisterFailed ==
    /\ registration
    /\ registration' = FALSE
    /\ last' = Other
    /\ UNCHANGED << accountExists, deletion, positionRequests, clockVars, storeVars,
                    authVars, trackVars, watchVars, fixVars, callVars, isLocationSharing,
                    locationAccuracy >>

\* ------------------------------------------- AuthProvider: deleteUserAccount
\* Lines 741-752: the guard, the re-authentication, then deleteDoc of the profile
\* is awaited.
DeleteAccountStart ==
    /\ currentUser # NoUser
    /\ userProfile # NoProfile
    /\ deletion = "none"
    /\ deletion' = "users"
    /\ last' = Other
    /\ UNCHANGED << accountExists, registration, positionRequests, clockVars, storeVars,
                    authVars, trackVars, watchVars, fixVars, callVars, isLocationSharing,
                    locationAccuracy >>

\* Lines 752-785: users/{uid} is deleted; after the circles, deleteDoc of the
\* location is awaited.
DeleteUsersDocDone ==
    /\ deletion = "users"
    /\ deletion' = "location"
    /\ usersDoc' = NoProfile
    /\ last' = Other
    /\ UNCHANGED << accountExists, registration, positionRequests, clockVars, locationDoc,
                    authVars, trackVars, watchVars, fixVars, callVars, isLocationSharing,
                    locationAccuracy >>

\* Lines 785-816: userLocations/{uid} is deleted; after the friend requests,
\* deleteUser is awaited.
DeleteLocationDocDone ==
    /\ deletion = "location"
    /\ deletion' = "auth"
    /\ locationDoc' = NoLocation
    /\ last' = Other
    /\ UNCHANGED << accountExists, registration, positionRequests, clockVars, usersDoc,
                    authVars, trackVars, watchVars, fixVars, callVars, isLocationSharing,
                    locationAccuracy >>

\* Lines 786-788: deleteDoc of the location is rejected; the error is logged and
\* the deletion goes on.
DeleteLocationDocFailed ==
    /\ deletion = "location"
    /\ deletion' = "auth"
    /\ last' = Other
    /\ UNCHANGED << accountExists, registration, positionRequests, clockVars, storeVars,
                    authVars, trackVars, watchVars, fixVars, callVars, isLocationSharing,
                    locationAccuracy >>

\* Line 816: deleteUser resolves; the account is gone and, when the user is
\* still signed in, the listener runs with no user.
DeleteAuthDone ==
    /\ deletion = "auth"
    /\ deletion' = "none"
    /\ accountExists' = FALSE
    /\ IF currentUser # NoUser
       THEN SignedOut
       ELSE UNCHANGED << currentUser, userProfile, watchVars >>
    /\ last' = Other
    /\ UNCHANGED << registration, positionRequests, clockVars, storeVars, loads, trackVars,
                    fixVars, callVars, isLocationSharing, locationAccuracy >>

\* Lines 818-829: the re-authentication, the deleteDoc of the profile or
\* deleteUser is rejected; the error is set and thrown again.
DeleteAccountFailed ==
    /\ deletion \in { "users", "auth" }
    /\ deletion' = "none"
    /\ last' = Other
    /\ UNCHANGED << accountExists, registration, positionRequests, clockVars, storeVars,
                    authVars, trackVars, watchVars, fixVars, callVars, isLocationSharing,
                    locationAccuracy >>

\* ------------------------------------- LocationProvider: toggleLocationSharing
\* Lines 296-306: called while sharing is off; getCurrentPosition is awaited.
ToggleOnCall ==
    /\ currentUser # NoUser
    /\ ~isLocationSharing
    /\ positionRequests' = positionRequests + 1
    /\ last' = Other
    /\ UNCHANGED << accountVars, clockVars, authVars, storeVars, trackVars, watchVars,
                    fixVars, callVars, isLocationSharing, locationAccuracy >>

\* Lines 308-318: the first position is granted: setIsLocationSharing(true) and
\* the tier of its accuracy; when sharing was off the tracking effect runs.
ToggleOn(accuracy) ==
    /\ positionRequests > 0
    /\ positionRequests' = positionRequests - 1
    /\ isLocationSharing' = TRUE
    /\ locationAccuracy' = BootstrapTier(accuracy)
    /\ IF isLocationSharing
       THEN UNCHANGED << watchVars, candidates, enabledAt >>
       ELSE /\ TrackingEffect(TRUE, currentUser, userProfile, lastSpeedUpdate, lastPosition,
                              speedHistory, movementHistory)
            /\ candidates' = << >>
            /\ enabledAt' = now
    /\ last' = [op |-> "toggleOn", accuracy |-> accuracy, enabled |-> ~isLocationSharing]
    /\ UNCHANGED << accountVars, clockVars, authVars, storeVars, trackVars, procs, writes,
                    nfixes, lastRewardAt, failedWrite, callVars >>

\* Lines 320-323: the first position is refused; nothing changes.
ToggleOnRefused ==
    /\ positionRequests > 0
    /\ positionRequests' = positionRequests - 1
    /\ last' = Other
    /\ UNCHANGED << accountVars, clockVars, authVars, storeVars, trackVars, watchVars,
                    fixVars, callVars, isLocationSharing, locationAccuracy >>

\* Toggling off without line 331, setMovementHistory([]).
ToggleOffKeepingMovement ==
    /\ currentUser # NoUser
    /\ isLocationSharing
    /\ isLocationSharing' = FALSE
    /\ locationAccuracy' = "medium"
    /\ speedHistory' = << >>
    /\ TrackingEffect(FALSE, currentUser, userProfile, lastSpeedUpdate, lastPosition,
                      << >>, movementHistory)
    /\ last' = [op |-> "toggleOff", watches |-> activeWatches,
                entries |-> Len(speedHistory) + Len(movementHistory)]
    /\ UNCHANGED << accountVars, positionRequests, clockVars, authVars, storeVars, lastSpeedUpdate, lastPosition,
                    movementHistory, currentLocation, fixVars, callVars >>

\* Lines 327-332, then the effect's cleanup and else branch, lines 442-452.
ToggleOff ==
    /\ currentUser # NoUser
    /\ isLocationSharing
    /\ isLocationSharing' = FALSE
    /\ locationAccuracy' = "medium"
    /\ speedHistory' = << >>
    /\ movementHistory' = << >>
    /\ TrackingEffect(FALSE, currentUser, userProfile, lastSpeedUpdate, lastPosition,
                      << >>, << >>)
    /\ last' = [op |-> "toggleOff", watches |-> activeWatches,
                entries |-> Len(speedHistory) + Len(movementHistory)]
    /\ UNCHANGED << accountVars, positionRequests, clockVars, authVars, storeVars, lastSpeedUpdate, lastPosition,
                    currentLocation, fixVars, callVars >>

\* ------------------------------------------ watchPosition: the error callback
\* The error callback with setIsLocationSharing(false) on TIMEOUT as well.
FixErrorTimeoutDisables(w, code) ==
    /\ w \in activeWatches
    /\ IF code \in { "PERMISSION_DENIED", "TIMEOUT" } /\ isLocationSharing
       THEN /\ isLocationSharing' = FALSE
            /\ TrackingEffect(FALSE, currentUser, userProfile, lastSpeedUpdate, lastPosition,
                              speedHistory, movementHistory)
       ELSE UNCHANGED << isLocationSharing, watchVars >>
    /\ last' = [op |-> "error", code |-> code,
                before |-> << isLocationSharing, activeWatches, speedHistory, movementHistory >>]
    /\ UNCHANGED << accountVars, positionRequests, clockVars, authVars, storeVars, trackVars, fixVars, callVars,
                    locationAccuracy >>

\* Lines 416-433; on PERMISSION_DENIED the effect runs again, lines 442-452.
FixError(w, code) ==
    /\ w \in activeWatches
    /\ IF code = "PERMISSION_DENIED" /\ isLocationSharing
       THEN /\ isLocationSharing' = FALSE
            /\ TrackingEffect(FALSE, currentUser, userProfile, lastSpeedUpdate, lastPosition,
                              speedHistory, movementHistory)
       ELSE UNCHANGED << isLocationSharing, watchVars >>
    /\ last' = [op |-> "error", code |-> code,
                before |-> << isLocationSharing, activeWatches, speedHistory, movementHistory >>]
    /\ UNCHANGED << accountVars, positionRequests, clockVars, authVars, storeVars, trackVars, fixVars, callVars,
                    locationAccuracy >>

\* ---------------------------------------- watchPosition: the success callback
\* The store acknowledges writes in the order they were issued.
FirstPendingWrite(i) == writes # << >> /\ Head(writes) = i

\* The pending writes once callback i has ended and left procs.
RECURSIVE Renumber(_, _)
Renumber(ws, i) ==
    IF ws = << >> THEN << >>
    ELSE IF Head(ws) = i THEN Renumber(Tail(ws), i)
    ELSE << IF Head(ws) > i THEN Head(ws) - 1 ELSE Head(ws) >> \o Renumber(Tail(ws), i)

\* Lines 354-357: a fix is delivered to the callback of an active subscription,
\* which reads the clock and awaits getBatteryLevel().
DeliverFix(w, f) ==
    /\ w \in activeWatches
    /\ procs' = Append(procs, [w |-> w, fix |-> f, time |-> now, pc |-> "battery",
                               loc |-> NoLocation, updated |-> NoProfile,
                               duration |-> 0, called |-> NoDate])
    /\ nfixes' = nfixes + 1
    /\ last' = Other
    /\ UNCHANGED << accountVars, positionRequests, clockVars, callVars, authVars, storeVars, trackVars, watchVars, isLocationSharing,
                    locationAccuracy, writes, lastRewardAt, failedWrite, candidates,
                    enabledAt >>

\* Lines 363-382: the candidate speed of a fix, from the state the callback reads.
CalculatedSpeed(c, f, t) ==
    IF f.speed # NoSpeed /\ f.speed >= 0
    THEN MpsToMph(f.speed)
    ELSE IF c.lastPosition # NoPosition
         THEN IF t - c.lastPosition.time > MinDerivationSecs
              THEN calculateSpeed(c.lastPosition.pos, f.pos, t - c.lastPosition.time)
              ELSE c.lastPosition.speed
         ELSE 0

\* Lines 385-412: the sample published for a fix.
LocationData(c, f, t) ==
    LET smoothedSpeed == smoothSpeed(c.speedHistory, CalculatedSpeed(c, f, t))
        isMoving == detectMovement(c.movementHistory, f.accuracy, now) \/ smoothedSpeed > 2
    IN  [ pos |-> f.pos, speed |-> smoothedSpeed, isDriving |-> isMoving /\ smoothedSpeed > 2,
          accuracy |-> f.accuracy ]

\* Battery promises resolve in the order they were awaited.
FirstAwaitingBattery(i) ==
    /\ procs[i].pc = "battery"
    /\ \A j \in 1..(i - 1) : procs[j].pc # "battery"

\* Lines 357-414 after the battery level is known, and updateLocation up to its
\* awaited setDoc, lines 168-173.
BatteryDone(i) ==
    /\ i \in DOMAIN procs
    /\ FirstAwaitingBattery(i)
    /\ LET p == procs[i]
           c == closures[p.w]
           loc == LocationData(c, p.fix, p.time)
       IN  /\ movementHistory' = AppendMovement(movementHistory, [time |-> p.time, pos |-> p.fix.pos])
           /\ speedHistory' = UpdatedHistory(c.speedHistory, CalculatedSpeed(c, p.fix, p.time))
           /\ candidates' = SliceLast(Append(candidates, CalculatedSpeed(c, p.fix, p.time)),
                                      maxHistoryLength)
           /\ lastPosition' = [pos |-> p.fix.pos, time |-> p.time, speed |-> loc.speed]
           /\ locationAccuracy' = AccuracyTier(p.fix.accuracy)
           /\ IF c.currentUser = NoUser
              THEN /\ procs' = RemoveAt(procs, i)
                   /\ writes' = Renumber(writes, i)
              ELSE /\ procs' = [procs EXCEPT ![i].pc = "setDoc", ![i].loc = loc]
                   /\ writes' = Append(writes, i)
           /\ last' = [op |-> "derive",
                       fresh |-> << c.speedHistory, c.movementHistory, c.lastPosition >>
                                   = << speedHistory, movementHistory, lastPosition >>,
                       fix |-> p.fix, time |-> p.time, previous |-> lastPosition,
                       read |-> c.lastPosition,
                       candidate |-> CalculatedSpeed(c, p.fix, p.time),
                       publish |-> c.currentUser # NoUser]
    /\ UNCHANGED << accountVars, positionRequests, clockVars, callVars, authVars, storeVars, lastSpeedUpdate, currentLocation,
                    watchVars, isLocationSharing, nfixes, lastRewardAt, failedWrite,
                    enabledAt >>

\* updateLocation, lines 181-184: whether the call goes on to updateUserRewards.
RewardDue(c, loc) ==
    /\ c.lastSpeedUpdate # NoDate
    /\ loc.speed >= 0
    /\ now - c.lastSpeedUpdate >= RewardIntervalSecs

\* updateUserRewards, line 1112.
RewardGuard(c) == c.currentUser # NoUser /\ c.userProfile # NoProfile

\* updateLocation, lines 173-195, once setDoc has resolved; when a reward is due,
\* updateUserRewards up to its awaited updateDoc, lines 1111-1186.
SetDocDone(i) ==
    /\ i \in DOMAIN procs
    /\ procs[i].pc = "setDoc"
    /\ FirstPendingWrite(i)
    /\ LET p == procs[i]
           c == closures[p.w]
           duration == now - c.lastSpeedUpdate
       IN  /\ locationDoc' = p.loc
           /\ IF RewardDue(c, p.loc)
              THEN /\ lastRewardAt' = now
                   /\ IF RewardGuard(c)
                      THEN /\ procs' = [procs EXCEPT ![i].pc = "updateDoc",
                                          ![i].updated = UpdatedProfile(c.userProfile, p.loc.speed,
                                                                       duration, now),
                                          ![i].duration = duration, ![i].called = now]
                           /\ writes' = Append(Tail(writes), i)
                           /\ UNCHANGED << lastSpeedUpdate, currentLocation >>
                      ELSE /\ procs' = RemoveAt(procs, i)
                           /\ writes' = Renumber(writes, i)
                           /\ lastSpeedUpdate' = now
                           /\ currentLocation' = p.loc
              ELSE /\ lastRewardAt' = lastRewardAt
                   /\ procs' = RemoveAt(procs, i)
                   /\ writes' = Renumber(writes, i)
                   /\ lastSpeedUpdate' = IF c.lastSpeedUpdate = NoDate /\ p.loc.speed >= 0
                                         THEN now ELSE lastSpeedUpdate
                   /\ currentLocation' = p.loc
           /\ last' = [op |-> "published", rewardCall |-> RewardDue(c, p.loc),
                       previousCall |-> lastRewardAt, at |-> now, loc |-> p.loc,
                       duration |-> IF RewardDue(c, p.loc) THEN duration ELSE 0]
    /\ UNCHANGED << accountVars, positionRequests, clockVars, callVars, authVars, usersDoc, lastPosition, speedHistory,
                    movementHistory, watchVars, isLocationSharing, locationAccuracy, nfixes,
                    failedWrite, candidates,
                    enabledAt >>

\* A rejected setDoc after which the reward that was due is still computed.
SetDocFailedStillRewarding(i) ==
    /\ i \in DOMAIN procs
    /\ procs[i].pc = "setDoc"
    /\ FirstPendingWrite(i)
    /\ LET p == procs[i]
           c == closures[p.w]
       IN  /\ failedWrite' = [at |-> now, due |-> RewardDue(c, p.loc)]
           /\ IF RewardDue(c, p.loc) /\ RewardGuard(c)
              THEN /\ lastRewardAt' = now
                   /\ procs' = [procs EXCEPT ![i].pc = "updateDoc",
                                  ![i].updated = UpdatedProfile(c.userProfile, p.loc.speed,
                                                               now - c.lastSpeedUpdate, now),
                                  ![i].duration = now - c.lastSpeedUpdate, ![i].called = now]
                   /\ writes' = Append(Tail(writes), i)
              ELSE /\ lastRewardAt' = lastRewardAt
                   /\ procs' = RemoveAt(procs, i)
                   /\ writes' = Renumber(writes, i)
    /\ last' = [op |-> "publishFailed",
                before |-> << isLocationSharing, activeWatches, watchId, locationDoc, usersDoc,
                              userProfile, lastSpeedUpdate, currentLocation, lastRewardAt >>,
                inFlight |-> Len(procs)]
    /\ UNCHANGED << accountVars, positionRequests, clockVars, callVars, authVars, storeVars, trackVars, watchVars, isLocationSharing,
                    locationAccuracy, nfixes, candidates,
                    enabledAt >>

\* updateLocation, lines 196-198: setDoc rejected; the error is logged.
SetDocFailed(i) ==
    /\ i \in DOMAIN procs
    /\ procs[i].pc = "setDoc"
    /\ FirstPendingWrite(i)
    /\ procs' = RemoveAt(procs, i)
    /\ writes' = Renumber(writes, i)
    /\ failedWrite' = [at |-> now, due |-> RewardDue(closures[procs[i].w], procs[i].loc)]
    /\ last' = [op |-> "publishFailed",
                before |-> << isLocationSharing, activeWatches, watchId, locationDoc, usersDoc,
                              userProfile, lastSpeedUpdate, currentLocation, lastRewardAt >>,
                inFlight |-> Len(procs)]
    /\ UNCHANGED << accountVars, positionRequests, clockVars, callVars, authVars, storeVars, trackVars, watchVars, isLocationSharing,
                    locationAccuracy, nfixes, lastRewardAt, candidates,
                    enabledAt >>

\* updateUserRewards, lines 1183-1188, once updateDoc has resolved, which takes
\* a stored document, then updateLocation, lines 189-195.
UpdateDocDone(i) ==
    /\ i \in DOMAIN procs
    /\ procs[i].pc = "updateDoc"
    /\ FirstPendingWrite(i)
    /\ usersDoc # NoProfile
    /\ writes' = Renumber(writes, i)
    /\ usersDoc' = [procs[i].updated EXCEPT !.lastSpeedCheck = now]
    /\ userProfile' = procs[i].updated
    /\ lastSpeedUpdate' = now
    /\ currentLocation' = procs[i].loc
    /\ procs' = RemoveAt(procs, i)
    /\ last' = [op |-> "rewarded", read |-> closures[procs[i].w].userProfile,
                wrote |-> procs[i].updated, speed |-> procs[i].loc.speed,
                duration |-> procs[i].duration, at |-> procs[i].called,
                before |-> userProfile, doc |-> usersDoc]
    /\ UNCHANGED << accountVars, positionRequests, clockVars, callVars, locationDoc, currentUser, loads, lastPosition,
                    speedHistory, movementHistory, watchVars, isLocationSharing,
                    locationAccuracy, nfixes, lastRewardAt, failedWrite, candidates,
                    enabledAt >>

\* updateUserRewards, lines 1190-1192: updateDoc rejected; the error is logged and
\* updateLocation goes on, lines 189-195.
UpdateDocFailed(i) ==
    /\ i \in DOMAIN procs
    /\ procs[i].pc = "updateDoc"
    /\ FirstPendingWrite(i)
    /\ writes' = Renumber(writes, i)
    /\ lastSpeedUpdate' = now
    /\ currentLocation' = procs[i].loc
    /\ procs' = RemoveAt(procs, i)
    /\ last' = [op |-> "rejected", before |-> userProfile, doc |-> usersDoc,
                attempted |-> procs[i].updated, pending |-> Len(calls) + Len(procs),
                made |-> nfixes + ncalls]
    /\ UNCHANGED << accountVars, positionRequests, clockVars, callVars, authVars, storeVars, lastPosition, speedHistory,
                    movementHistory, watchVars, isLocationSharing, locationAccuracy, nfixes,
                    lastRewardAt, failedWrite, candidates,
                    enabledAt >>

\* ------------------------------------- updateUserRewards called by other code
\* The context value exports updateUserRewards (line 1343); a caller of the
\* current render runs lines 1111-1186 up to the awaited updateDoc.
RecordObservation(speed, duration) ==
    /\ currentUser # NoUser
    /\ userProfile # NoProfile
    /\ calls' = Append(calls, [read |-> userProfile,
                               updated |-> UpdatedProfile(userProfile, speed, duration, now),
                               speed |-> speed, duration |-> duration, at |-> now])
    /\ ncalls' = ncalls + 1
    /\ last' = Other
    /\ UNCHANGED << accountVars, positionRequests, clockVars, authVars, storeVars, trackVars, watchVars, fixVars, edits,
                    isLocationSharing, locationAccuracy >>

\* Lines 1183-1188: updateDoc resolved, which takes a stored document, then
\* setUserProfile(updatedProfile).
ObservationPersisted ==
    /\ calls # << >>
    /\ usersDoc # NoProfile
    /\ usersDoc' = [Head(calls).updated EXCEPT !.lastSpeedCheck = now]
    /\ userProfile' = Head(calls).updated
    /\ calls' = Tail(calls)
    /\ last' = [op |-> "rewarded", read |-> Head(calls).read, wrote |-> Head(calls).updated,
                speed |-> Head(calls).speed, duration |-> Head(calls).duration,
                at |-> Head(calls).at, before |-> userProfile, doc |-> usersDoc]
    /\ UNCHANGED << accountVars, positionRequests, clockVars, locationDoc, currentUser, loads, trackVars, watchVars,
                    fixVars, ncalls, edits, isLocationSharing, locationAccuracy >>

\* A rejected updateDoc after which the computed profile is kept in memory.
ObservationRejectedKeepingUpdate ==
    /\ calls # << >>
    /\ calls' = Tail(calls)
    /\ userProfile' = Head(calls).updated
    /\ last' = [op |-> "rejected", before |-> userProfile, doc |-> usersDoc,
                attempted |-> Head(calls).updated, pending |-> Len(calls) + Len(procs),
                made |-> nfixes + ncalls]
    /\ UNCHANGED << accountVars, positionRequests, clockVars, currentUser, loads, storeVars, trackVars, watchVars,
                    fixVars, ncalls, edits, isLocationSharing, locationAccuracy >>

\* Lines 1190-1192: updateDoc rejected; the error is logged.
ObservationRejected ==
    /\ calls # << >>
    /\ calls' = Tail(calls)
    /\ last' = [op |-> "rejected", before |-> userProfile, doc |-> usersDoc,
                attempted |-> Head(calls).updated, pending |-> Len(calls) + Len(procs),
                made |-> nfixes + ncalls]
    /\ UNCHANGED << accountVars, positionRequests, clockVars, authVars, storeVars, trackVars, watchVars, fixVars, ncalls, edits,
                    isLocationSharing, locationAccuracy >>

\* ------------------------------------------- AuthProvider: the profile edits
\* updateUserProfile (686-711), updateEmergencyInfo (713-739), joinCircle
\* (831-884), leaveCircle (886-936) and respondToFriendRequest (1019-1085) pass
\* the guard on currentUser and userProfile, await an updateDoc of the user's
\* document with fields that are no reward fields, then call
\* setUserProfile({...userProfile, ...}) with the userProfile of the render in
\* which the operation was called.  updateUserProfile and updateEmergencyInfo
\* make the write in the call; the other three first await reads and writes of
\* the circles and the friend requests, which the model does not keep, and may
\* end there.  Of the fields written the model keeps
\* hasCompletedEmergencySetup, which updateEmergencyInfo sets (line 722); the
\* others write fields outside the model.
NoUpdates == [none |-> TRUE]

EditUpdates == { NoUpdates, [hasCompletedEmergencySetup |-> TRUE] }

\* {...profile, ...updates}, and updateDoc's merge of the fields written.
ApplyUpdates(p, u) ==
    IF u = NoUpdates THEN p
    ELSE [p EXCEPT !.hasCompletedEmergencySetup = u.hasCompletedEmergencySetup]

\* The reward and score fields of a profile, those updateUserRewards computes
\* (lines 1171-1179).
RewardFields(p) ==
    [ safetyScore      |-> p.safetyScore,
      totalRewards     |-> p.totalRewards,
      weeklyRewards    |-> p.weeklyRewards,
      monthlyRewards   |-> p.monthlyRewards,
      speedViolations  |-> p.speedViolations,
      lastSpeedCheck   |-> p.lastSpeedCheck,
      averageSpeed     |-> p.averageSpeed,
      totalDrivingTime |-> p.totalDrivingTime ]

\* The entry of writes that stands for the updateDoc of a profile edit; the
\* entries of the fix callbacks are their positions in procs, from 1.
EditWrite == 0

\* edits keeps the edits whose updateDoc is pending in the order they made it:
\* the first of them is the one the store acknowledges next.
FirstIssuedEdit ==
    CHOOSE k \in DOMAIN edits :
        /\ edits[k].pc = "updateDoc"
        /\ \A j \in 1..(k - 1) : edits[j].pc # "updateDoc"

\* updateUserProfile(updates), lines 686-693, and updateEmergencyInfo, lines
\* 713-726: the guard, then updateDoc of the user's document is made and awaited.
ProfileEditStart(u) ==
    /\ currentUser # NoUser
    /\ userProfile # NoProfile
    /\ edits' = Append(edits, [read |-> userProfile, updates |-> u, pc |-> "updateDoc"])
    /\ writes' = Append(writes, EditWrite)
    /\ last' = Other
    /\ UNCHANGED << accountVars, positionRequests, clockVars, authVars, storeVars, trackVars, watchVars,
                    procs, nfixes, lastRewardAt, failedWrite, candidates, enabledAt, calls, ncalls,
                    isLocationSharing, locationAccuracy >>

\* joinCircle, lines 831-847, leaveCircle, lines 886-907, and
\* respondToFriendRequest, lines 1019-1026: the guard, then the first await on
\* the circles or the friend requests.  The operation holds the userProfile of
\* the render in which it was called.
CircleEditStart ==
    /\ currentUser # NoUser
    /\ userProfile # NoProfile
    /\ edits' = Append(edits, [read |-> userProfile, updates |-> NoUpdates, pc |-> "circles"])
    /\ last' = Other
    /\ UNCHANGED << accountVars, positionRequests, clockVars, authVars, storeVars, trackVars, watchVars, fixVars, calls, ncalls,
                    isLocationSharing, locationAccuracy >>

\* The awaits on the circles and the friend requests resolved: updateDoc of
\* the user's document is made and awaited, lines 869-871, 921-923, 1060-1062.
CircleEditIssued(k) ==
    /\ k \in DOMAIN edits
    /\ edits[k].pc = "circles"
    /\ edits' = Append(RemoveAt(edits, k), [edits[k] EXCEPT !.pc = "updateDoc"])
    /\ writes' = Append(writes, EditWrite)
    /\ last' = Other
    /\ UNCHANGED << accountVars, positionRequests, clockVars, authVars, storeVars, trackVars, watchVars,
                    procs, nfixes, lastRewardAt, failedWrite, candidates, enabledAt, calls, ncalls,
                    isLocationSharing, locationAccuracy >>

\* The operation ends before it writes the user's document: an await on the
\* circles or the friend requests is rejected or finds nothing (lines 849-851,
\* 1027-1029, the catch at 879-883, 931-935, 1080-1084), or
\* respondToFriendRequest declines the request (line 1033).
CircleEditEnded(k) ==
    /\ k \in DOMAIN edits
    /\ edits[k].pc = "circles"
    /\ edits' = RemoveAt(edits, k)
    /\ last' = Other
    /\ UNCHANGED << accountVars, positionRequests, clockVars, authVars, storeVars, trackVars, watchVars, fixVars, calls, ncalls,
                    isLocationSharing, locationAccuracy >>

\* updateDoc resolved, once the writes made before it are acknowledged, which
\* takes a stored document: the store merges the fields written, and
\* setUserProfile spreads the profile the operation read.
ProfileEditDone ==
    /\ FirstPendingWrite(EditWrite)
    /\ usersDoc # NoProfile
    /\ usersDoc' = ApplyUpdates(usersDoc, edits[FirstIssuedEdit].updates)
    /\ userProfile' = ApplyUpdates(edits[FirstIssuedEdit].read, edits[FirstIssuedEdit].updates)
    /\ edits' = RemoveAt(edits, FirstIssuedEdit)
    /\ writes' = Tail(writes)
    /\ last' = [op |-> "edited", before |-> userProfile, doc |-> usersDoc,
                updates |-> edits[FirstIssuedEdit].updates]
    /\ UNCHANGED << accountVars, positionRequests, clockVars, currentUser, loads, locationDoc, trackVars, watchVars,
                    procs, nfixes, lastRewardAt, failedWrite, candidates, enabledAt, calls, ncalls,
                    isLocationSharing, locationAccuracy >>

\* updateDoc rejected: the error is set and thrown again, lines 706-710,
\* 734-738, 879-883, 931-935, 1080-1084.
ProfileEditFailed ==
    /\ FirstPendingWrite(EditWrite)
    /\ edits' = RemoveAt(edits, FirstIssuedEdit)
    /\ writes' = Tail(writes)
    /\ last' = [op |-> "edited", before |-> userProfile, doc |-> usersDoc,
                updates |-> NoUpdates]
    /\ UNCHANGED << accountVars, positionRequests, clockVars, authVars, storeVars, trackVars, watchVars,
                    procs, nfixes, lastRewardAt, failedWrite, candidates, enabledAt, calls, ncalls,
                    isLocationSharing, locationAccuracy >>

\* ----------------------------------------------------------- specifications
\* The life of the account and the subscription: register, sign-in and
\* sign-out, deleteUserAccount, the toggle, errors and fixes, all within one
\* second of the wall clock, so that no reward is due (line 184) and
\* updateUserRewards is not reached.
Next ==
    \/ /\ isLocationSharing => Len(closures) + positionRequests < MaxWatches
       /\ Len(loads) < MaxLoads
       /\ SignIn
    \/ \E i \in DOMAIN loads : LoadGetDocDone(i)
    \/ \E i \in DOMAIN loads : LoadSetDocDone(i)
    \/ \E i \in DOMAIN loads : LoadCircleDone(i)
    \/ \E i \in DOMAIN loads : LoadFailed(i)
    \/ (isLocationSharing => Len(closures) + positionRequests < MaxWatches) /\ SignOut
    \/ /\ isLocationSharing => Len(closures) + positionRequests < MaxWatches
       /\ Len(loads) < MaxLoads
       /\ Register
    \/ RegisterSetDocDone
    \/ RegisterFailed
    \/ DeleteAccountStart
    \/ DeleteUsersDocDone
    \/ DeleteLocationDocDone
    \/ DeleteLocationDocFailed
    \/ (isLocationSharing => Len(closures) + positionRequests < MaxWatches) /\ DeleteAuthDone
    \/ DeleteAccountFailed
    \/ Len(closures) + positionRequests < MaxWatches /\ ToggleOnCall
    \/ \E a \in FirstFixAccuracies : ToggleOn(a)
    \/ ToggleOnRefused
    \/ ToggleOff
    \/ \E w \in activeWatches, code \in ErrorCodes : FixError(w, code)
    \/ nfixes < MaxFixes /\ \E w \in activeWatches, f \in FixInputs : DeliverFix(w, f)
    \/ \E i \in DOMAIN procs : BatteryDone(i)
    \/ \E i \in DOMAIN procs : SetDocDone(i)
    \/ \E i \in DOMAIN procs : SetDocFailed(i)

Spec == InitAccount /\ [][Next]_vars

\* The sharing sessions of one user who stays signed in: the toggle, errors and
\* fixes, within one second of the wall clock.
NextSession ==
    \/ SignIn
    \/ \E i \in DOMAIN loads : LoadGetDocDone(i)
    \/ \E i \in DOMAIN loads : LoadSetDocDone(i)
    \/ \E i \in DOMAIN loads : LoadCircleDone(i)
    \/ Len(closures) + positionRequests < MaxSessionWatches /\ ToggleOnCall
    \/ \E a \in FirstFixAccuracies : ToggleOn(a)
    \/ ToggleOnRefused
    \/ ToggleOff
    \/ \E w \in activeWatches, code \in ErrorCodes : FixError(w, code)
    \/ nfixes < MaxSessionFixes /\ \E w \in activeWatches, f \in FixInputs : DeliverFix(w, f)
    \/ \E i \in DOMAIN procs : BatteryDone(i)
    \/ \E i \in DOMAIN procs : SetDocDone(i)
    \/ \E i \in DOMAIN procs : SetDocFailed(i)

SpecSession == Init /\ [][NextSession]_vars

\* One signed-in user toggling sharing while fixes arrive and the clock advances.
NextTracking ==
    \/ nticks < MaxTrackTicks /\ \E d \in Ticks : Tick(d)
    \/ SignIn
    \/ \E i \in DOMAIN loads : LoadGetDocDone(i)
    \/ \E i \in DOMAIN loads : LoadSetDocDone(i)
    \/ \E i \in DOMAIN loads : LoadCircleDone(i)
    \/ Len(closures) + positionRequests < MaxTrackWatches /\ ToggleOnCall
    \/ \E a \in FirstFixAccuracies : ToggleOn(a)
    \/ ToggleOff
    \/ /\ nfixes < MaxTrackFixes
       /\ Len(procs) < MaxTrackInFlight
       /\ \E w \in activeWatches, f \in FixInputs : DeliverFix(w, f)
    \/ \E i \in DOMAIN procs : BatteryDone(i)
    \/ \E i \in DOMAIN procs : SetDocDone(i)
    \/ \E i \in DOMAIN procs : UpdateDocDone(i)
    \/ \E i \in DOMAIN procs : UpdateDocFailed(i)

SpecTracking == Init /\ [][NextTracking]_vars

\* Sessions of a user whose profile is stored, whose fixes arrive one at a time
\* and whose store writes may be rejected, with the clock advancing so that a
\* reward becomes due.
NextPublish ==
    \/ nticks < MaxPublishTicks /\ \E d \in Ticks : Tick(d)
    \/ SignIn
    \/ \E i \in DOMAIN loads : LoadGetDocDone(i)
    \/ Len(closures) + positionRequests < MaxPublishWatches /\ ToggleOnCall
    \/ \E a \in FirstFixAccuracies : ToggleOn(a)
    \/ ToggleOff
    \/ /\ nfixes < MaxPublishFixes
       /\ procs = << >>
       /\ \E w \in activeWatches, f \in PublishFixInputs : DeliverFix(w, f)
    \/ \E i \in DOMAIN procs : BatteryDone(i)
    \/ \E i \in DOMAIN procs : SetDocDone(i)
    \/ \E i \in DOMAIN procs : SetDocFailed(i)
    \/ \E i \in DOMAIN procs : UpdateDocDone(i)

SpecPublish == InitStored /\ [][NextPublish]_vars

\* Sessions in which a fix follows the previous one after a second.
NextJump ==
    \/ nticks < MaxJumpTicks /\ \E d \in JumpTicks : Tick(d)
    \/ SignIn
    \/ \E i \in DOMAIN loads : LoadGetDocDone(i)
    \/ \E i \in DOMAIN loads : LoadSetDocDone(i)
    \/ \E i \in DOMAIN loads : LoadCircleDone(i)
    \/ Len(closures) + positionRequests < MaxJumpWatches /\ ToggleOnCall
    \/ \E a \in FirstFixAccuracies : ToggleOn(a)
    \/ ToggleOff
    \/ /\ nfixes < MaxJumpFixes
       /\ procs = << >>
       /\ \E w \in activeWatches, f \in JumpFixInputs : DeliverFix(w, f)
    \/ \E i \in DOMAIN procs : BatteryDone(i)
    \/ \E i \in DOMAIN procs : SetDocDone(i)

SpecJump == Init /\ [][NextJump]_vars

\* Sessions whose first position and fixes have any accuracy.
NextTier ==
    \/ SignIn
    \/ \E i \in DOMAIN loads : LoadGetDocDone(i)
    \/ \E i \in DOMAIN loads : LoadSetDocDone(i)
    \/ \E i \in DOMAIN loads : LoadCircleDone(i)
    \/ Len(closures) + positionRequests < MaxTierWatches /\ ToggleOnCall
    \/ \E a \in TierAccuracies : ToggleOn(a)
    \/ ToggleOff
    \/ /\ nfixes < MaxTierFixes
       /\ procs = << >>
       /\ \E w \in activeWatches, f \in TierFixInputs : DeliverFix(w, f)
    \/ \E i \in DOMAIN procs : BatteryDone(i)
    \/ \E i \in DOMAIN procs : SetDocDone(i)

SpecTier == Init /\ [][NextTier]_vars

\* Sessions during which the user edits the profile, with fixes arriving one
\* at a time.
NextEdits ==
    \/ nticks < MaxEditTicks /\ \E d \in Ticks : Tick(d)
    \/ SignIn
    \/ \E i \in DOMAIN loads : LoadGetDocDone(i)
    \/ \E i \in DOMAIN loads : LoadSetDocDone(i)
    \/ \E i \in DOMAIN loads : LoadCircleDone(i)
    \/ Len(closures) + positionRequests < MaxEditWatches /\ ToggleOnCall
    \/ \E a \in FirstFixAccuracies : ToggleOn(a)
    \/ ToggleOff
    \/ /\ nfixes < MaxEditFixes
       /\ procs = << >>
       /\ \E w \in activeWatches, f \in PublishFixInputs : DeliverFix(w, f)
    \/ \E i \in DOMAIN procs : BatteryDone(i)
    \/ \E i \in DOMAIN procs : SetDocDone(i)
    \/ \E i \in DOMAIN procs : UpdateDocDone(i)
    \/ Len(edits) < MaxEdits /\ \E u \in EditUpdates : ProfileEditStart(u)
    \/ Len(edits) < MaxEdits /\ CircleEditStart
    \/ \E k \in DOMAIN edits : CircleEditIssued(k)
    \/ \E k \in DOMAIN edits : CircleEditEnded(k)
    \/ ProfileEditDone
    \/ ProfileEditFailed

SpecEdits == Init /\ [][NextEdits]_vars

\* Sessions whose fixes arrive one at a time, an hour after the first session.
NextHours ==
    \/ nticks < MaxHourTicks /\ \E d \in HourTicks : Tick(d)
    \/ SignIn
    \/ \E i \in DOMAIN loads : LoadGetDocDone(i)
    \/ \E i \in DOMAIN loads : LoadSetDocDone(i)
    \/ \E i \in DOMAIN loads : LoadCircleDone(i)
    \/ Len(closures) + positionRequests < MaxHourWatches /\ ToggleOnCall
    \/ \E a \in FirstFixAccuracies : ToggleOn(a)
    \/ ToggleOff
    \/ /\ nfixes < MaxHourFixes
       /\ procs = << >>
       /\ \E w \in activeWatches, f \in FixInputs : DeliverFix(w, f)
    \/ \E i \in DOMAIN procs : BatteryDone(i)
    \/ \E i \in DOMAIN procs : SetDocDone(i)
    \/ \E i \in DOMAIN procs : UpdateDocDone(i)

SpecHours == Init /\ [][NextHours]_vars

\* Sessions in which a fix follows the previous one after two seconds.
NextBoundary ==
    \/ nticks < MaxBoundaryTicks /\ \E d \in BoundaryTicks : Tick(d)
    \/ SignIn
    \/ \E i \in DOMAIN loads : LoadGetDocDone(i)
    \/ \E i \in DOMAIN loads : LoadSetDocDone(i)
    \/ \E i \in DOMAIN loads : LoadCircleDone(i)
    \/ Len(closures) + positionRequests < MaxBoundaryWatches /\ ToggleOnCall
    \/ \E a \in FirstFixAccuracies : ToggleOn(a)
    \/ ToggleOff
    \/ /\ nfixes < MaxBoundaryFixes
       /\ procs = << >>
       /\ \E w \in activeWatches, f \in FixInputs : DeliverFix(w, f)
    \/ \E i \in DOMAIN procs : BatteryDone(i)
    \/ \E i \in DOMAIN procs : SetDocDone(i)

SpecBoundary == Init /\ [][NextBoundary]_vars

\* Sessions of a device that reports its speed, with the clock advancing so
\* that a reward becomes due.
NextDevice ==
    \/ nticks < MaxDeviceTicks /\ \E d \in Ticks : Tick(d)
    \/ SignIn
    \/ \E i \in DOMAIN loads : LoadGetDocDone(i)
    \/ \E i \in DOMAIN loads : LoadSetDocDone(i)
    \/ \E i \in DOMAIN loads : LoadCircleDone(i)
    \/ Len(closures) + positionRequests < MaxDeviceWatches /\ ToggleOnCall
    \/ \E a \in FirstFixAccuracies : ToggleOn(a)
    \/ ToggleOff
    \/ /\ nfixes < MaxDeviceFixes
       /\ procs = << >>
       /\ \E w \in activeWatches, f \in DeviceFixInputs : DeliverFix(w, f)
    \/ \E i \in DOMAIN procs : BatteryDone(i)
    \/ \E i \in DOMAIN procs : SetDocDone(i)
    \/ \E i \in DOMAIN procs : UpdateDocDone(i)

SpecDevice == Init /\ [][NextDevice]_vars

\* One sharing session receiving a long stream of fixes, one at a time.
NextStream ==
    \/ SignIn
    \/ \E i \in DOMAIN loads : LoadGetDocDone(i)
    \/ \E i \in DOMAIN loads : LoadSetDocDone(i)
    \/ \E i \in DOMAIN loads : LoadCircleDone(i)
    \/ Len(closures) + positionRequests < MaxStreamWatches /\ ToggleOnCall
    \/ \E a \in FirstFixAccuracies : ToggleOn(a)
    \/ /\ nfixes < MaxStreamFixes
       /\ procs = << >>
       /\ \E w \in activeWatches, f \in FixInputs : DeliverFix(w, f)
    \/ \E i \in DOMAIN procs : BatteryDone(i)
    \/ \E i \in DOMAIN procs : SetDocDone(i)

SpecStream == Init /\ [][NextStream]_vars

\* The reward engine under any caller: observations of any speed and duration.
NextEngine ==
    \/ nticks < MaxEngineTicks /\ \E d \in EngineTicks : Tick(d)
    \/ SignIn
    \/ \E i \in DOMAIN loads : LoadGetDocDone(i)
    \/ \E i \in DOMAIN loads : LoadSetDocDone(i)
    \/ \E i \in DOMAIN loads : LoadCircleDone(i)
    \/ ncalls < MaxCalls /\ \E s \in Speeds, d \in Durations : RecordObservation(s, d)
    \/ ObservationPersisted
    \/ ObservationRejected

SpecEngine == InitEngine /\ [][NextEngine]_vars

\* updateUserRewards applied to one observation of any speed.
NextBands ==
    \/ SignIn
    \/ \E i \in DOMAIN loads : LoadGetDocDone(i)
    \/ \E i \in DOMAIN loads : LoadSetDocDone(i)
    \/ \E i \in DOMAIN loads : LoadCircleDone(i)
    \/ /\ ncalls < MaxBandCalls
       /\ \E s \in BandSpeeds, d \in BandDurations : RecordObservation(s, d)
    \/ ObservationPersisted

SpecBands == InitBands /\ [][NextBands]_vars

\* --------------------------------------------------------------- properties
\* C1: in every reachable state the safety score lies between 0 and 100 (0 and
\* 1000 tenths): in the profile in memory, in the stored profile and in the
\* profile every updateUserRewards call in flight is about to store, after any
\* sequence of observations, repeated 90 mph observations included.
C1_SafetyScoreInRange ==
    /\ userProfile # NoProfile =>
           (userProfile.safetyScore >= 0 /\ userProfile.safetyScore <= 1000)
    /\ usersDoc # NoProfile => (usersDoc.safetyScore >= 0 /\ usersDoc.safetyScore <= 1000)
    /\ \A i \in DOMAIN calls :
           calls[i].updated.safetyScore >= 0 /\ calls[i].updated.safetyScore <= 1000

\* A 90 mph observation on a score below 0.8 was persisted, and the score is 0.
C1_Witness ==
    /\ last.op = "rewarded"
    /\ last.speed = 90
    /\ last.read.safetyScore + SafetyScoreChange(last.speed) < 0
    /\ userProfile = last.wrote
    /\ userProfile.safetyScore = 0

\* C2: in every reachable state the lifetime total of rewards is at least 0, in
\* memory, in the store and in every call in flight: no sequence of penalties,
\* the -300 aggregate penalty included, drives it negative.
C2_TotalRewardNonNegative ==
    /\ userProfile # NoProfile => userProfile.totalRewards >= 0
    /\ usersDoc # NoProfile => usersDoc.totalRewards >= 0
    /\ \A i \in DOMAIN calls : calls[i].updated.totalRewards >= 0

\* A penalty larger than the lifetime total was persisted, and the total is 0.
C2_Witness ==
    /\ last.op = "rewarded"
    /\ last.read.totalRewards + RewardChange(last.read, last.speed, last.duration) < 0
    /\ userProfile = last.wrote
    /\ usersDoc.totalRewards = 0

\* C3: for one user there is never more than one updateUserRewards call in
\* flight: no two fix callbacks are at once between the read of the profile and
\* the write of the updated profile.
C3_OneRewardCallInFlight ==
    Cardinality({ i \in DOMAIN procs : procs[i].pc = "updateDoc" }) <= 1

\* C4: any two invocations of updateUserRewards made by updateLocation are at
\* least 30 seconds of wall-clock time apart.
C4_RewardCallsThirtySecondsApart ==
    (last.op = "published" /\ last.rewardCall /\ last.previousCall # NoDate)
        => last.at - last.previousCall >= 30

\* C5: the derivation of the sample of a fix reads the speed history, the
\* movement history and the last position exactly as the processing of the fix
\* before it left them, never an older snapshot.
C5_DerivationReadsLatestState ==
    last.op = "derive" => last.fresh

\* C6: in every reachable state the speed history holds at most 5 entries and
\* the movement history at most 10, whatever the number of fixes delivered.
C6_HistoriesWithinCaps ==
    Len(speedHistory) <= 5 /\ Len(movementHistory) <= 10

\* C7: at any time at most one position subscription is active, and exactly one
\* while sharing is enabled, across toggles, permission errors and changes of
\* the current user while sharing is enabled.
C7_OneActiveSubscription ==
    /\ Cardinality(activeWatches) <= 1
    /\ isLocationSharing => Cardinality(activeWatches) = 1

\* C8: toggling sharing off cancels the active subscription and leaves both the
\* speed history and the movement history empty.
C8_ToggleOffCancelsAndClears ==
    last.op = "toggleOff" =>
        /\ ~isLocationSharing
        /\ activeWatches = {}
        /\ speedHistory = << >>
        /\ movementHistory = << >>

\* Sharing was toggled off with a subscription active and entries in the
\* histories; no subscription and no entry is left.
C8_Witness ==
    /\ last.op = "toggleOff"
    /\ last.watches # {}
    /\ last.entries >= 2
    /\ activeWatches = {}
    /\ speedHistory = << >>
    /\ movementHistory = << >>

\* C9: an error tagged permission-denied sets isLocationSharing to false; an
\* error tagged timeout or unavailable leaves isLocationSharing, the active
\* subscriptions, the speed history and the movement history unchanged.
C9_ErrorHandling ==
    last.op = "error" =>
        IF last.code = "PERMISSION_DENIED"
        THEN ~isLocationSharing
        ELSE << isLocationSharing, activeWatches, speedHistory, movementHistory >> = last.before

\* A timeout arrived in a session that had processed a fix; sharing is still
\* on, the subscription is still active and the histories kept their entries.
C9_Witness ==
    /\ last.op = "error"
    /\ last.code = "TIMEOUT"
    /\ isLocationSharing
    /\ watchId \in activeWatches
    /\ speedHistory # << >>
    /\ movementHistory # << >>

\* C10: when updateUserRewards runs in a calendar month other than that of
\* lastSpeedCheck, the monthly rewards and the violation count it stores are
\* this observation's own contribution only, while the lifetime total, the
\* weekly rewards, the average speed and the driving time continue from the
\* values read.
C10_RolloverResetsMonthlyOnly ==
    (last.op = "rewarded" /\ CalendarMonth(last.at) # CalendarMonth(last.read.lastSpeedCheck)) =>
        LET change == RewardChange(last.read, last.speed, last.duration)
        IN  /\ last.wrote.monthlyRewards = Max(0, change)
            /\ last.wrote.speedViolations = ViolationIncrement(last.speed)
            /\ last.wrote.totalRewards = Max(0, last.read.totalRewards + change)
            /\ last.wrote.weeklyRewards = last.read.weeklyRewards + Max(0, change)
            /\ last.wrote.averageSpeed = NewAverageSpeed(last.read, last.speed, last.duration)
            /\ last.wrote.totalDrivingTime = last.read.totalDrivingTime + last.duration

\* C11: the violation count of the user's profile drops only in an
\* updateUserRewards call that detects a month rollover: a call evaluated in
\* the calendar month of the profile's lastSpeedCheck never leaves the count
\* lower than it was.
C11_ViolationsDropOnlyAtRollover ==
    (/\ last.op = "rewarded"
     /\ last.before # NoProfile
     /\ userProfile.speedViolations < last.before.speedViolations)
        => CalendarMonth(last.at) # CalendarMonth(last.before.lastSpeedCheck)

\* C12: below the 1800-minute threshold updateUserRewards rewards per minute
\* of duration: 60 mph for 60 minutes adds 480 and raises the score by 0.2
\* without a violation; 90 mph for 60 minutes takes 900, lowers the score by
\* 0.8 and adds one violation; 10 mph for 30 minutes adds 150.
C12_PerMinuteRewards ==
    (last.op = "rewarded" /\ last.read.totalDrivingTime + last.duration < 108000) =>
        /\ (last.speed = 60 /\ last.duration = 3600) =>
               /\ last.wrote.weeklyRewards = last.read.weeklyRewards + 480
               /\ last.wrote.totalRewards = last.read.totalRewards + 480
               /\ last.wrote.safetyScore = Min(1000, last.read.safetyScore + 2)
               /\ last.wrote.speedViolations \in { 0, last.read.speedViolations }
        /\ (last.speed = 90 /\ last.duration = 3600) =>
               /\ last.wrote.weeklyRewards = last.read.weeklyRewards
               /\ last.wrote.totalRewards = Max(0, last.read.totalRewards - 900)
               /\ last.wrote.safetyScore = Max(0, last.read.safetyScore - 8)
               /\ last.wrote.speedViolations \in { 1, last.read.speedViolations + 1 }
        /\ (last.speed = 10 /\ last.duration = 1800) =>
               /\ last.wrote.weeklyRewards = last.read.weeklyRewards + 150
               /\ last.wrote.totalRewards = last.read.totalRewards + 150

\* C13: for every speed and duration, before the aggregate bonus, a speed in
\* [3,15] gives floor(duration/60)*5 and +0.1; otherwise a speed up to 65 gives
\* floor(duration/60)*8 and +0.2, a speed above 65 and up to 75 gives
\* -floor(duration/60)*3 and -0.1, and a speed above 75 gives
\* -floor(duration/60)*15 and -0.8; the violation count grows by exactly 1 if
\* and only if the speed is above 75.
C13_BandTable ==
    last.op = "rewarded" =>
        LET units == last.duration \div 3600
            exercise == last.speed >= 3 /\ last.speed <= 15
            band == IF exercise THEN units * 5
                    ELSE IF last.speed <= 65 THEN units * 8
                    ELSE IF last.speed <= 75 THEN -(units * 3)
                    ELSE -(units * 15)
            score == IF exercise THEN 1
                     ELSE IF last.speed <= 65 THEN 2
                     ELSE IF last.speed <= 75 THEN -1
                     ELSE -8
            violation == IF last.speed > 75 THEN 1 ELSE 0
            bonus == AggregateChange(last.read.totalDrivingTime + last.duration,
                                     NewAverageSpeed(last.read, last.speed, last.duration))
        IN  /\ last.wrote.totalRewards = Max(0, last.read.totalRewards + band + bonus)
            /\ last.wrote.weeklyRewards = last.read.weeklyRewards + Max(0, band + bonus)
            /\ last.wrote.safetyScore = Max(0, Min(1000, last.read.safetyScore + score))
            /\ last.wrote.speedViolations \in { violation, last.read.speedViolations + violation }

\* An hour at 15 mph, the upper end of the exercise band, was persisted below
\* the driving-time threshold: 5 was added to the rewards.
C13_Witness ==
    /\ last.op = "rewarded"
    /\ last.speed = 15
    /\ last.duration = 3600
    /\ last.read.totalDrivingTime + last.duration < 108000
    /\ last.wrote.weeklyRewards = last.read.weeklyRewards + 5
    /\ last.wrote.totalRewards = last.read.totalRewards + 5
    /\ userProfile = last.wrote

\* C14: the aggregate bonus is applied only when the new total driving time is
\* at least 1800 minutes: then 150 is added if the new average speed is at most
\* 65, 300 are taken if it is above 75, and nothing changes in between; below
\* 1800 minutes the reward is exactly that of the speed band.
C14_AggregateBonus ==
    last.op = "rewarded" =>
        LET old == last.read
            newTotal == old.totalDrivingTime + last.duration
            common == Gcd(old.averageSpeed.den, old.totalDrivingTime)
            den == IF common = 0 THEN 1 ELSE old.averageSpeed.den \div common
            weighted == (IF common = 0 THEN 0
                         ELSE old.averageSpeed.num * (old.totalDrivingTime \div common))
                          + last.speed * last.duration * den
            scale == den * newTotal
            band == BandRewardChange(last.speed, last.duration)
            bonus == IF newTotal < 108000 THEN 0
                     ELSE IF weighted <= 65 * scale THEN 150
                     ELSE IF weighted > 75 * scale THEN -300
                     ELSE 0
        IN  /\ last.wrote.totalRewards = Max(0, old.totalRewards + band + bonus)
            /\ last.wrote.weeklyRewards = old.weeklyRewards + Max(0, band + bonus)

\* An observation brought the driving time to exactly 1800 minutes with an
\* average speed of exactly 65: the bonus of 150 was added to the band reward.
C14_Witness ==
    /\ last.op = "rewarded"
    /\ last.read.totalDrivingTime + last.duration = 108000
    /\ last.wrote.averageSpeed = [num |-> 65, den |-> 1]
    /\ last.wrote.weeklyRewards
         = last.read.weeklyRewards + BandRewardChange(last.speed, last.duration) + 150
    /\ userProfile = last.wrote

\* C15: after any sequence of persisted updateUserRewards calls the stored
\* average speed is the time-weighted mean of the observations: each persisted
\* call adds its duration to the total driving time and its speed times its
\* duration to the product of the average speed and the total driving time.
C15_TimeWeightedMean ==
    (last.op = "rewarded" /\ last.before # NoProfile) =>
        /\ userProfile.totalDrivingTime = last.before.totalDrivingTime + last.duration
        /\ userProfile.averageSpeed.num * userProfile.totalDrivingTime
             * last.before.averageSpeed.den
           = ( last.before.averageSpeed.num * last.before.totalDrivingTime
                 + last.speed * last.duration * last.before.averageSpeed.den )
               * userProfile.averageSpeed.den

\* C16: when the store rejects the write of updateUserRewards the observation
\* is discarded: the profile in memory and the stored profile are exactly what
\* they were before, the call ends without an error reaching its caller, and
\* the observation is not submitted again.
C16_RejectedObservationDiscarded ==
    last.op = "rejected" =>
        /\ userProfile = last.before
        /\ usersDoc = last.doc
        /\ Len(calls) + Len(procs) = last.pending - 1
        /\ nfixes + ncalls = last.made

\* The write of an observation that would have changed the profile was rejected.
C16_Witness ==
    /\ last.op = "rejected"
    /\ last.before # NoProfile
    /\ last.attempted.totalRewards # last.before.totalRewards
    /\ last.attempted.safetyScore # last.before.safetyScore
    /\ userProfile = last.before
    /\ calls = << >>

\* C17: a rejected store write in updateLocation is swallowed: sharing stays
\* as it was, no subscription is cancelled, the fix callback ends normally,
\* no reward observation is recorded for that fix and nothing else changes;
\* a fix delivered afterwards is derived and published as usual.
C17_PublishFailureSwallowed ==
    /\ last.op = "publishFailed" =>
          /\ << isLocationSharing, activeWatches, watchId, locationDoc, usersDoc, userProfile,
                lastSpeedUpdate, currentLocation, lastRewardAt >> = last.before
          /\ Len(procs) = last.inFlight - 1
          /\ \A i \in DOMAIN procs : procs[i].pc # "updateDoc"
    /\ (last.op = "published" /\ failedWrite # NoFailure) =>
          /\ last.loc # NoLocation
          /\ locationDoc = last.loc

\* The write of a fix for which a reward was due was rejected, no reward call
\* was ever made, and the fix delivered next was published.
C17_Witness ==
    /\ failedWrite # NoFailure
    /\ failedWrite.due
    /\ last.op = "published"
    /\ last.previousCall = NoDate
    /\ locationDoc = last.loc
    /\ isLocationSharing
    /\ watchId \in activeWatches

\* C18: when the device reports no speed and a fix comes one second after the
\* previous fix at a position implying about 200 mph, the candidate speed
\* handed to the smoothing is 0, whatever the previous smoothed speed was.
C18_ImplausibleJumpGivesZero ==
    (/\ last.op = "derive"
     /\ last.fix.speed = NoSpeed
     /\ last.previous # NoPosition
     /\ last.time - last.previous.time = 1
     /\ RoundDiv(Abs(last.fix.pos - last.previous.pos) * 2237, 1000) \in 199..201)
        => last.candidate = 0

\* C19: the GPS-quality tier is defined for every accuracy and never improves
\* as the accuracy in metres grows: a fix of accuracy at most 3 is high, at
\* most 10 medium, above 10 low; for the first position of
\* toggleLocationSharing the thresholds are 5 and 20.
C19_TierTotalMonotonic ==
    LET rank(tier) == IF tier = "high" THEN 3 ELSE IF tier = "medium" THEN 2 ELSE 1
    IN  /\ last.op = "derive" =>
              /\ locationAccuracy = ( IF last.fix.accuracy <= 3 THEN "high"
                                      ELSE IF last.fix.accuracy <= 10 THEN "medium"
                                      ELSE "low" )
              /\ \A b \in 0..last.fix.accuracy :
                    rank(AccuracyTier(b)) >= rank(locationAccuracy)
        /\ last.op = "toggleOn" =>
              /\ locationAccuracy = ( IF last.accuracy <= 5 THEN "high"
                                      ELSE IF last.accuracy <= 20 THEN "medium"
                                      ELSE "low" )
              /\ \A b \in 0..last.accuracy :
                    rank(BootstrapTier(b)) >= rank(locationAccuracy)

\* A fix of accuracy exactly 3 m was derived: the tier is high.
C19_Witness ==
    /\ last.op = "derive"
    /\ last.fix.accuracy = 3
    /\ locationAccuracy = "high"

\* C20: the reward and score fields of a profile change only by
\* updateUserRewards: a profile edit (updateUserProfile, updateEmergencyInfo,
\* joinCircle, leaveCircle, respondToFriendRequest), however it interleaves
\* with an updateUserRewards call, leaves them as they were, in memory and in
\* the store.
C20_OnlyRewardsWriteRewardFields ==
    last.op = "edited" =>
        /\ last.before # NoProfile => RewardFields(userProfile) = RewardFields(last.before)
        /\ last.doc # NoProfile => RewardFields(usersDoc) = RewardFields(last.doc)

\* C21: weeklyRewards never decreases across updateUserRewards calls, and
\* monthlyRewards never decreases in a call that detects no month rollover:
\* a negative reward lowers totalRewards only.
C21_WeeklyMonthlyNeverDecrease ==
    (last.op = "rewarded" /\ last.before # NoProfile) =>
        /\ userProfile.weeklyRewards >= last.before.weeklyRewards
        /\ getMonth(last.at) = getMonth(last.read.lastSpeedCheck)
              => userProfile.monthlyRewards >= last.before.monthlyRewards

\* C22: the candidate speed of a fix is round(reportedSpeed * 2.237) when the
\* device reports a non-negative speed; otherwise, when the callback has a
\* prior position and at least 2000 ms have passed since it (exactly 2000 ms
\* included), the speed derived from the two positions, replaced by 0 above
\* 150 mph or above 80 mph within 5000 ms; and when less than 2000 ms have
\* passed, the smoothed speed of the prior position.
C22_CandidateSelection ==
    last.op = "derive" =>
        IF last.fix.speed # NoSpeed /\ last.fix.speed >= 0
        THEN last.candidate = RoundDiv(last.fix.speed * 2237, 1000)
        ELSE last.read # NoPosition =>
                LET elapsed == last.time - last.read.time
                    n == Abs(last.fix.pos - last.read.pos) * 2237
                    d == elapsed * 1000
                IN  IF elapsed >= 2
                    THEN last.candidate = ( IF n > 150 * d \/ (n > 80 * d /\ elapsed < 5)
                                            THEN 0 ELSE Max(0, RoundDiv(n, d)) )
                    ELSE last.candidate = last.read.speed

\* C23: the smoothed speed published for the k-th fix since sharing was
\* enabled is round(sum(speed_i * i) / sum(i)) over the last min(k, 5)
\* candidate speeds in arrival order, the oldest with weight 1.
C23_SmoothingOverLastFive ==
    last.op = "derive" =>
        lastPosition.speed
          = RoundDiv(WeightedSum(candidates, Len(candidates)), TotalWeight(Len(candidates)))

\* C24: every change of sharing from enabled to disabled, the one forced by a
\* permission-denied error included, cancels the subscription and leaves the
\* speed history and the movement history empty, so that a session enabled
\* later starts without entries of the previous one.
C24_DisablingClearsHistories ==
    /\ ( \/ last.op = "toggleOff"
         \/ last.op = "error" /\ last.code = "PERMISSION_DENIED" /\ last.before[1] )
          => /\ ~isLocationSharing
             /\ activeWatches = {}
             /\ speedHistory = << >>
             /\ movementHistory = << >>
    /\ (last.op = "toggleOn" /\ last.enabled)
          => speedHistory = << >> /\ movementHistory = << >>

\* C25: the duration handed to updateUserRewards covers only time during
\* which sharing was enabled: after sharing was toggled off and on again, the
\* first observation of the new session does not reach back before the moment
\* sharing was enabled.
C25_DurationWithinSession ==
    (last.op = "published" /\ last.rewardCall) => last.duration <= last.at - enabledAt

\* C26: within one calendar month the aggregate bonus of 150, and likewise
\* the aggregate penalty of 300, is applied at most once: a call that reads a
\* profile to which it was applied in this month does not apply it again.
C26_AggregateOncePerMonth ==
    (/\ last.op = "rewarded"
     /\ last.read.totalDrivingTime >= 108000
     /\ CalendarMonth(last.read.lastSpeedCheck) = CalendarMonth(last.at)) =>
        LET band == BandRewardChange(last.speed, last.duration)
            average == NewAverageSpeed(last.read, last.speed, last.duration)
            again == IF RatLeq(average, 65) /\ ~RatLeq(last.read.averageSpeed, 65) THEN 150
                     ELSE IF RatGt(average, 75) /\ ~RatGt(last.read.averageSpeed, 75) THEN -300
                     ELSE 0
        IN  /\ last.wrote.totalRewards = Max(0, last.read.totalRewards + band + again)
            /\ last.wrote.weeklyRewards = last.read.weeklyRewards + Max(0, band + again)

\* C27: whenever updateUserRewards runs in a calendar month (year and month)
\* other than that of lastSpeedCheck, the rollover is detected and the monthly
\* rewards and the violation count start again from zero, also when the two
\* times are whole years apart and their months of the year are equal.
C27_RolloverAcrossYears ==
    (/\ last.op = "rewarded"
     /\ CalendarMonth(last.at) # CalendarMonth(last.read.lastSpeedCheck)) =>
        /\ last.wrote.monthlyRewards
             = Max(0, RewardChange(last.read, last.speed, last.duration))
        /\ last.wrote.speedViolations = (IF last.speed > 75 THEN 1 ELSE 0)

\* C28: once sharing has been disabled no store publish and no updateUserRewards
\* call is started, and MovementHistory stays empty until sharing is enabled
\* again, even for a fix callback that was awaiting the battery level when
\* sharing was disabled.
C28_NothingStartsOnceDisabled ==
    ~isLocationSharing =>
        /\ last.op = "derive" => ~last.publish
        /\ last.op = "published" => ~last.rewardCall
        /\ movementHistory = << >>

\* C29: updateUserRewards leaves every field of the persisted user record that
\* is no reward field as it was: a value written to such a field by a profile
\* edit (here hasCompletedEmergencySetup, by updateEmergencyInfo) is never
\* overwritten with an older value by a reward update that interleaves with or
\* follows the edit.
C29_RewardsKeepOtherFields ==
    (last.op = "rewarded" /\ last.doc # NoProfile) =>
        usersDoc.hasCompletedEmergencySetup = last.doc.hasCompletedEmergencySetup

\* C30: no candidate speed, no published sample and no observation passed to
\* updateUserRewards carries a speed above 150 mph, whether the speed was
\* derived from two fixes or reported by the device.
C30_NoSpeedAbovePlausible ==
    /\ last.op = "derive" => last.candidate <= MaxPlausibleMph
    /\ last.op = "published" => last.loc.speed <= MaxPlausibleMph
    /\ last.op = "rewarded" => last.speed <= MaxPlausibleMph

====
